---------------------------- MODULE Spec2Model ----------------------------
(***************************************************************************)
(* Model of the package-manager layer of savvy_systems (src-tauri):       *)
(* the coordinator PackageManager (package_manager/mod.rs), the two       *)
(* backends ChocolateyManager and WingetManager, the result and error     *)
(* types (types.rs) and the tauri commands that call them (main.rs).      *)
(*                                                                         *)
(* A String or &str is a TLA+ string.  The operations that look inside one *)
(* work on its sequence of one-character strings: Chars gives that        *)
(* sequence and Str turns one back into a string.  The bytes a process    *)
(* writes are such a sequence too, "xFF" standing for a byte that is not  *)
(* valid UTF-8 and "uFFFD" for the replacement character.                 *)
(* Option<T> is <<>> (None) or <<v>> (Some(v)).                           *)
(***************************************************************************)
EXTENDS Integers, Sequences, FiniteSets, Bags, TLC

\* ------------------------------------------------------------------------
\* Bounds
\* ------------------------------------------------------------------------
\* number of tauri command invocations that may be in progress at once
NumCalls == 2

\* number of lines of a text given to a list parser on its own
MaxLines == 2

\* number of "|"-separated fields of a line of such a text
MaxFields == 3

\* number of words of a line given to a whitespace-splitting parser on its own
MaxWords == 4

\* ------------------------------------------------------------------------
\* Text helpers (the std string operations the backends use)
\* ------------------------------------------------------------------------
Chars(s) == [i \in 1..Len(s) |-> SubSeq(s, i, i)]

\* .to_string(): the String made of the characters cs
RECURSIVE Str(_)
Str(cs) == IF cs = <<>> THEN "" ELSE cs[1] \o Str(Tail(cs))

None == <<>>
Some(v) == <<v>>

\* char::is_whitespace, on the characters that occur in the model
IsWhitespace(c) == c \in {" ", "\t", "\n", "\r"}

\* char::is_numeric, on the characters that occur in the model
IsNumeric(c) == c \in {"0", "1", "2", "3", "4", "5", "6", "7", "8", "9"}

\* String::from_utf8_lossy: every invalid byte becomes U+FFFD
FromUtf8Lossy(bytes) ==
    [i \in 1..Len(bytes) |-> IF bytes[i] = "xFF" THEN "uFFFD" ELSE bytes[i]]

\* index of the first occurrence of character c in s, 0 when there is none
IndexOf(s, c) ==
    IF \E i \in 1..Len(s) : s[i] = c
    THEN CHOOSE i \in 1..Len(s) : s[i] = c /\ \A j \in 1..(i - 1) : s[j] # c
    ELSE 0

\* str::split(char): the fields between the delimiters, empty ones included
RECURSIVE Split(_, _)
Split(s, d) ==
    LET i == IndexOf(s, d)
    IN  IF i = 0 THEN <<s>>
        ELSE <<SubSeq(s, 1, i - 1)>> \o Split(SubSeq(s, i + 1, Len(s)), d)

\* str::lines: split at "\n"; a line that ended in "\n" also loses one "\r"
\* before it; no empty last line after a final "\n"
Lines(t) ==
    LET parts == Split(t, "\n")
        n     == Len(parts)
        kept  == IF parts[n] = <<>> THEN n - 1 ELSE n
        strip(l) == IF Len(l) > 0 /\ l[Len(l)] = "\r"
                    THEN SubSeq(l, 1, Len(l) - 1) ELSE l
    IN  [k \in 1..kept |-> IF k < n THEN strip(parts[k]) ELSE parts[k]]

\* str::trim_start / str::trim
RECURSIVE TrimStart(_)
TrimStart(s) ==
    IF Len(s) > 0 /\ IsWhitespace(s[1]) THEN TrimStart(Tail(s)) ELSE s

RECURSIVE TrimEnd(_)
TrimEnd(s) ==
    IF Len(s) > 0 /\ IsWhitespace(s[Len(s)])
    THEN TrimEnd(SubSeq(s, 1, Len(s) - 1)) ELSE s

Trim(s) == TrimEnd(TrimStart(s))

\* str::trim_start_matches(char)
RECURSIVE TrimStartMatches(_, _)
TrimStartMatches(s, c) ==
    IF Len(s) > 0 /\ s[1] = c THEN TrimStartMatches(Tail(s), c) ELSE s

\* str::split_whitespace: the maximal runs of non-whitespace characters
RECURSIVE SplitWhitespace(_)
SplitWhitespace(s) ==
    LET t == TrimStart(s)
    IN  IF t = <<>> THEN <<>>
        ELSE LET ws == {i \in 1..Len(t) : IsWhitespace(t[i])}
                 e  == IF ws = {} THEN Len(t) + 1
                       ELSE CHOOSE i \in ws : \A j \in ws : i <= j
             IN  <<SubSeq(t, 1, e - 1)>>
                     \o SplitWhitespace(SubSeq(t, e, Len(t)))

\* str::contains(&str)
Contains(s, sub) ==
    \E i \in 0..(Len(s) - Len(sub)) : SubSeq(s, i + 1, i + Len(sub)) = sub

\* str::starts_with(char)
StartsWith(s, c) == Len(s) > 0 /\ s[1] = c

\* [&str]::join(" ")
RECURSIVE Join(_, _)
Join(ws, sep) ==
    IF ws = <<>> THEN <<>>
    ELSE IF Len(ws) = 1 THEN ws[1]
    ELSE ws[1] \o sep \o Join(Tail(ws), sep)

\* Iterator::filter_map over a sequence of Option values: keep the Some ones
RECURSIVE Flatten(_)
Flatten(opts) ==
    IF opts = <<>> THEN <<>> ELSE opts[1] \o Flatten(Tail(opts))

\* the least element of a non-empty set of integers
Min(S) == CHOOSE i \in S : \A j \in S : i <= j

\* ------------------------------------------------------------------------
\* types.rs
\* ------------------------------------------------------------------------
\* PackageSource
Sources == {"Chocolatey", "Winget"}

\* the kinds of PackageError
ErrorKinds == {"NotFound", "CommandFailed", "PermissionDenied",
               "AlreadyInstalled", "NotInstalled", "Unknown"}

\* Err(PackageError::kind(msg))
Err(kind, msg) == [type |-> "Err", kind |-> kind, msg |-> msg]

InstallResult(success, package_id, version, output, error) ==
    [type |-> "InstallResult", success |-> success, package_id |-> package_id,
     version |-> version, output |-> output, error |-> error]

UninstallResult(success, package_id, output, error) ==
    [type |-> "UninstallResult", success |-> success,
     package_id |-> package_id, output |-> output, error |-> error]

UpgradeResult(success, package_id, old_version, new_version, output, error) ==
    [type |-> "UpgradeResult", success |-> success, package_id |-> package_id,
     old_version |-> old_version, new_version |-> new_version,
     output |-> output, error |-> error]

InstalledPackage(id, version, source, name) ==
    [id |-> id, version |-> version, source |-> source, name |-> name]

\* Ok(Vec<InstalledPackage>)
Packages(ps) == [type |-> "Packages", packages |-> ps]

\* the string literals the parsers look for
KwInstalledLower == Chars("successfully installed")
KwInstalledUpper == Chars("Successfully installed")
KwUpgraded == Chars("upgraded")
KwVersion == Chars("version")

\* ------------------------------------------------------------------------
\* chocolatey.rs: parsing
\* ------------------------------------------------------------------------
\* ChocoParseLine that forgets to trim the fields
ChocoParseLineNoTrim(line) ==
    LET parts == Split(line, "|")
    IN  IF Len(parts) >= 2
        THEN Some(InstalledPackage(Str(parts[1]), Str(parts[2]),
                                   "Chocolatey", Some(Str(parts[1]))))
        ELSE None

\* the closure of filter_map in ChocolateyManager::list_installed
ChocoParseLine(line) ==
    LET parts == Split(line, "|")
    IN  IF Len(parts) >= 2
        THEN Some(InstalledPackage(Str(Trim(parts[1])), Str(Trim(parts[2])),
                                   "Chocolatey", Some(Str(Trim(parts[1])))))
        ELSE None

ChocoParseList(stdout) ==
    LET ls == Lines(stdout)
    IN  Flatten([k \in 1..Len(ls) |-> ChocoParseLine(ls[k])])

\* one iteration of the outer loop of ChocolateyManager::parse_version_from_output
ChocoVersionInLine(line) ==
    IF Contains(line, KwInstalledLower) \/ Contains(line, KwUpgraded)
    THEN LET words == SplitWhitespace(line)
             hits  == {i \in 1..Len(words) :
                          \/ Contains(words[i], <<"v">>)
                          \/ (i > 1 /\ Contains(words[i - 1], KwVersion))}
         IN  IF hits = {} THEN None
             ELSE Some(Str(TrimStartMatches(words[Min(hits)], "v")))
    ELSE None

ChocoParseVersion(output) ==
    LET ls    == Lines(output)
        found == Flatten([k \in 1..Len(ls) |-> ChocoVersionInLine(ls[k])])
    IN  IF found = <<>> THEN None ELSE Some(found[1])

\* ------------------------------------------------------------------------
\* winget.rs: parsing
\* ------------------------------------------------------------------------
\* WingetParseLine that wants a fourth column
WingetParseLineFourParts(line) ==
    IF Trim(line) = <<>> \/ StartsWith(line, "-") THEN None
    ELSE LET parts  == SplitWhitespace(line)
             dotted == {i \in 1..Len(parts) : Contains(parts[i], <<".">>)}
         IN  IF Len(parts) >= 4 /\ dotted # {}
             THEN LET idx     == Min(dotted)
                      id      == Str(parts[idx])
                      version == IF idx + 1 <= Len(parts)
                                 THEN Str(parts[idx + 1]) ELSE "unknown"
                      name    == Str(Join(SubSeq(parts, 1, idx - 1), <<" ">>))
                  IN  Some(InstalledPackage(id, version, "Winget",
                              Some(IF name = "" THEN id ELSE name)))
             ELSE None

\* the body of the for loop in WingetManager::list_installed
WingetParseLine(line) ==
    IF Trim(line) = <<>> \/ StartsWith(line, "-") THEN None
    ELSE LET parts  == SplitWhitespace(line)
             dotted == {i \in 1..Len(parts) : Contains(parts[i], <<".">>)}
         IN  IF Len(parts) >= 3 /\ dotted # {}
             THEN LET idx     == Min(dotted)
                      id      == Str(parts[idx])
                      version == IF idx + 1 <= Len(parts)
                                 THEN Str(parts[idx + 1]) ELSE "unknown"
                      name    == Str(Join(SubSeq(parts, 1, idx - 1), <<" ">>))
                  IN  Some(InstalledPackage(id, version, "Winget",
                              Some(IF name = "" THEN id ELSE name)))
             ELSE None

\* WingetParseList that takes the header block for one line
WingetParseListSkipOne(stdout) ==
    LET all == Lines(stdout)
        ls  == SubSeq(all, 2, Len(all))
    IN  Flatten([k \in 1..Len(ls) |-> WingetParseLine(ls[k])])

\* for line in stdout.lines().skip(2) of WingetManager::list_installed
WingetParseList(stdout) ==
    LET all == Lines(stdout)
        ls  == SubSeq(all, 3, Len(all))
    IN  Flatten([k \in 1..Len(ls) |-> WingetParseLine(ls[k])])

\* one iteration of the outer loop of WingetManager::parse_version_from_output
WingetVersionInLine(line) ==
    IF Contains(line, KwInstalledUpper) \/ Contains(line, KwUpgraded)
    THEN LET words == SplitWhitespace(line)
             hits  == {i \in 1..Len(words) :
                          /\ \E k \in 1..Len(words[i]) : words[i][k] = "."
                          /\ \E k \in 1..Len(words[i]) : IsNumeric(words[i][k])}
         IN  IF hits = {} THEN None ELSE Some(Str(words[Min(hits)]))
    ELSE None

WingetParseVersion(output) ==
    LET ls    == Lines(output)
        found == Flatten([k \in 1..Len(ls) |-> WingetVersionInLine(ls[k])])
    IN  IF found = <<>> THEN None ELSE Some(found[1])

\* ------------------------------------------------------------------------
\* the backends: dispatch on the source tag
\* ------------------------------------------------------------------------
\* the two backend instances the coordinator owns (its fields)
Backends == {"chocolatey", "winget"}

\* ChocolateyManager::new / WingetManager::new
ExePath(b) == IF b = "chocolatey" THEN "choco" ELSE "winget"

ParseList(b, stdout) ==
    IF b = "chocolatey" THEN ChocoParseList(stdout) ELSE WingetParseList(stdout)

ParseVersion(b, output) ==
    IF b = "chocolatey" THEN ChocoParseVersion(output)
    ELSE WingetParseVersion(output)

\* the message of the NotFound error of each backend
NotInstalledMsg(b) ==
    IF b = "chocolatey" THEN "Chocolatey is not installed"
    ELSE "Winget is not installed"

\* FindVersion taking the first record of the list, whatever its id
FindVersionFirst(installed, package_id) ==
    IF installed = <<>> THEN None ELSE Some(installed[1].version)

\* FindVersion that keeps the last record of the identifier
FindVersionLast(installed, package_id) ==
    LET hits == {i \in 1..Len(installed) : installed[i].id = package_id}
    IN  IF hits = {} THEN None
        ELSE Some(installed[CHOOSE i \in hits : \A j \in hits : j <= i].version)

\* installed.iter().find(|p| p.id == package_id).map(|p| p.version.clone())
FindVersion(installed, package_id) ==
    LET hits == {i \in 1..Len(installed) : installed[i].id = package_id}
    IN  IF hits = {} THEN None ELSE Some(installed[Min(hits)].version)

\* Args whose Chocolatey install may stop and ask: no "-y"
ArgsInteractive(b, sub, id) ==
    IF sub = "probe" THEN <<"--version">>
    ELSE IF b = "chocolatey"
    THEN CASE sub = "install"   -> <<"install", id, "--no-progress">>
           [] sub = "uninstall" -> <<"uninstall", id, "-y">>
           [] sub = "upgrade"   -> <<"upgrade", id, "-y", "--no-progress">>
           [] sub = "list"      -> <<"list", "--local-only", "--limit-output">>
    ELSE CASE sub = "install"   -> <<"install", "--id", id, "--silent",
                                     "--accept-package-agreements",
                                     "--accept-source-agreements">>
           [] sub = "uninstall" -> <<"uninstall", "--id", id, "--silent">>
           [] sub = "upgrade"   -> <<"upgrade", "--id", id, "--silent",
                                     "--accept-package-agreements">>
           [] sub = "list"      -> <<"list">>

\* the argument vector of each Command the backends build
Args(b, sub, id) ==
    IF sub = "probe" THEN <<"--version">>
    ELSE IF b = "chocolatey"
    THEN CASE sub = "install"   -> <<"install", id, "-y",
                                     "--no-progress">>
           [] sub = "uninstall" -> <<"uninstall", id, "-y">>
           [] sub = "upgrade"   -> <<"upgrade", id, "-y",
                                     "--no-progress">>
           [] sub = "list"      -> <<"list", "--local-only",
                                     "--limit-output">>
    ELSE CASE sub = "install"   -> <<"install", "--id", id,
                                     "--silent",
                                     "--accept-package-agreements",
                                     "--accept-source-agreements">>
           [] sub = "uninstall" -> <<"uninstall", "--id", id,
                                     "--silent">>
           [] sub = "upgrade"   -> <<"upgrade", "--id", id,
                                     "--silent",
                                     "--accept-package-agreements">>
           [] sub = "list"      -> <<"list">>

\* Command::new(&self.exe_path).args(..): the process a backend asks for
Command(b, sub, id) ==
    [exe |-> ExePath(b), args |-> Args(b, sub, id), sub |-> sub]

\* one .output() call as the OS saw it: the command, whether it was spawned,
\* and, once a real subcommand has completed, its exit code and stderr bytes
Attempt(cmd, ok) ==
    [exe |-> cmd.exe, args |-> cmd.args, sub |-> cmd.sub, spawned |-> ok,
     exit |-> None, stderr |-> None]

\* the last attempt of a log completes with this exit code and stderr
Completed(log, code, errb) ==
    [log EXCEPT ![Len(log)].exit = Some(code), ![Len(log)].stderr = Some(errb)]

\* ------------------------------------------------------------------------
\* The environment: what the callers ask for and what the processes answer
\* ------------------------------------------------------------------------
\* the four operations of the coordinator
Ops == {"install", "uninstall", "upgrade", "list_installed"}

PackageIds == {"a.b"}

ExitCodes == {0, 1}

\* standard output of a listing subcommand, as bytes
ChocoListStdouts ==
    {Chars("7zip|19.0|\na.b|1.0\na.b|0.9\n"), Chars("7zip|19.0|\n")}
WingetListStdouts ==
    {Chars("Name Id Version\n-----\nGit git 2.0\nFoo Bar a.b 1.5 winget\nFoo a.b 1.4 winget\n"),
     Chars("Name Id Version\n-----\nGit git 2.0\n")}
ListStdouts(b) ==
    IF b = "chocolatey" THEN ChocoListStdouts ELSE WingetListStdouts

\* standard output of an install, uninstall or upgrade subcommand, as bytes
ChocoOpStdouts == {Chars("a.b v1.1 successfully installed\n")}
WingetOpStdouts == {Chars("Successfully installed a.b 1.6\n")}
OpStdouts(b) ==
    IF b = "chocolatey" THEN ChocoOpStdouts ELSE WingetOpStdouts

\* standard error of a subcommand, as bytes ("xFF" is not valid UTF-8)
Stderrs == {<<"e", "r", "r", "xFF">>}

\* the message of the io::Error of a failed spawn or wait
IoErrors == {"os error"}

\* ------------------------------------------------------------------------
\* State
\* ------------------------------------------------------------------------
VARIABLES
    guard,   \* guard[b]: TRUE while a MutexGuard of backend b's Mutex is alive
    calls    \* the bag of coordinator calls in progress, one record per call:
             \*   op, source, package_id: what the caller asked for
             \*   pc: where the call is
             \*   stage: the backend function body the call is executing
             \*   installed, old_version: the locals of upgrade
             \*   child: the child process in flight for the call, or None
             \*   spawns: the .output() calls of the call so far, in order
             \*   bres: the value the backend operation returned, or None
             \*   ret: the value the coordinator returned, or None
VARIABLE
    parse    \* one application of a parsing function on its own:
             \*   fn: the function, "none" while the coordinator runs
             \*   input: the lines given to it, as the fields or words of each
             \*   result: what it returned, once applied

vars == <<guard, calls, parse>>

\* no parsing function is being looked at on its own
NoParse == [fn |-> "none", input |-> <<>>, result |-> None]

NoId == ""

\* the calls in progress, as a set of records
InProgress == BagToSet(calls)

\* one call moves from r to r2
Step(r, r2) == calls' = (calls (-) SetToBag({r})) (+) SetToBag({r2})

\* PackageManager::new, and no command invoked yet
Init ==
    /\ guard = [b \in Backends |-> FALSE]
    /\ calls = EmptyBag
    /\ parse = NoParse

\* ------------------------------------------------------------------------
\* mod.rs: the coordinator
\* ------------------------------------------------------------------------
\* Route with both match arms using the chocolatey field
RouteAllChocolatey(tag) == "chocolatey"

\* the match on the source tag: the field of PackageManager that serves it
Route(tag) == IF tag = "Chocolatey" THEN "chocolatey" ELSE "winget"

\* GuardFree without mutual exclusion: lock() always completes
GuardFreeAlways(b) == TRUE

\* GuardFree with one lock shared by both backends
GuardFreeShared(b) == \A b2 \in Backends : ~guard[b2]

\* tokio Mutex: lock() completes only while no guard of that mutex is alive
GuardFree(b) == ~guard[b]

\* DropGuard that leaks the guard when the backend returned an Err
DropGuardOkOnly(b, v) ==
    IF v.type = "Err" THEN guard ELSE [guard EXCEPT ![b] = FALSE]

\* DropGuard that leaks the guard: it is never released
DropGuardLeaked(b, v) == guard

\* the MutexGuard `manager` goes out of scope at the end of the match arm,
\* whatever value v the backend returned
DropGuard(b, v) == [guard EXCEPT ![b] = FALSE]

\* the value of the match arm: the backend's value, as it is
Forward(v) == v

\* the backend function a coordinator operation delegates to starts here
EntryStage(o) ==
    CASE o = "upgrade"        -> "outer"
      [] o = "list_installed" -> "list"
      [] OTHER                -> "main"

\* the subcommand the backend runs in the stage call r is in
Sub(r) == IF r.stage = "list" THEN "list" ELSE r.op

\* the Err of the presence gate of every backend operation
NotFound(b) == Err("NotFound", NotInstalledMsg(b))

\* CommandFailed built with the Unknown variant
CommandFailedAsUnknown(msg) == Err("Unknown", msg)

\* .map_err(|e| PackageError::CommandFailed(e.to_string()))
CommandFailed(msg) == Err("CommandFailed", msg)

\* MakeResult that sets error whether or not the process succeeded
MakeResultAlwaysError(b, o, id, oldv, code, out, errb) ==
    LET stdout  == FromUtf8Lossy(out)
        stderr  == Str(FromUtf8Lossy(errb))
        success == (code = 0)
        error   == Some(stderr)
    IN  CASE o = "install" ->
               InstallResult(success, id, ParseVersion(b, stdout),
                             Str(stdout), error)
          [] o = "uninstall" ->
               UninstallResult(success, id, Str(stdout), error)
          [] o = "upgrade" ->
               UpgradeResult(success, id, oldv, ParseVersion(b, stdout),
                             Str(stdout), error)

\* MakeResult that reports the captured stdout as the error text
MakeResultStdoutAsError(b, o, id, oldv, code, out, errb) ==
    LET stdout  == FromUtf8Lossy(out)
        success == (code = 0)
        error   == IF success THEN None ELSE Some(Str(stdout))
    IN  CASE o = "install" ->
               InstallResult(success, id, ParseVersion(b, stdout),
                             Str(stdout), error)
          [] o = "uninstall" ->
               UninstallResult(success, id, Str(stdout), error)
          [] o = "upgrade" ->
               UpgradeResult(success, id, oldv, ParseVersion(b, stdout),
                             Str(stdout), error)

\* the record install, uninstall and upgrade build from a completed process
MakeResult(b, o, id, oldv, code, out, errb) ==
    LET stdout  == FromUtf8Lossy(out)
        stderr  == Str(FromUtf8Lossy(errb))
        success == (code = 0)
        error   == IF success THEN None ELSE Some(stderr)
    IN  CASE o = "install" ->
               InstallResult(success, id, ParseVersion(b, stdout),
                             Str(stdout), error)
          [] o = "uninstall" ->
               UninstallResult(success, id, Str(stdout), error)
          [] o = "upgrade" ->
               UpgradeResult(success, id, oldv, ParseVersion(b, stdout),
                             Str(stdout), error)

\* ListResult without the check of the exit status
ListResultIgnoreStatus(b, code, out, errb) ==
    Packages(ParseList(b, FromUtf8Lossy(out)))

\* list_installed after the process completed: the status check, then the parse
ListResult(b, code, out, errb) ==
    IF code # 0 THEN CommandFailed(Str(FromUtf8Lossy(errb)))
    ELSE Packages(ParseList(b, FromUtf8Lossy(out)))

\* a tauri command (main.rs) calls the coordinator; the call awaits the lock
Invoke(o, tag, id) ==
    /\ BagCardinality(calls) < NumCalls
    /\ calls' = calls (+) SetToBag({[op |-> o, source |-> tag,
                   package_id |-> id, pc |-> "lock", stage |-> "none",
                   installed |-> None, old_version |-> None,
                   child |-> None, spawns |-> <<>>,
                   bres |-> None, ret |-> None]})
    /\ UNCHANGED <<guard, parse>>

\* Acquire that starts the backend function without taking the guard
AcquireWithoutGuard(r) ==
    /\ r.pc = "lock"
    /\ Step(r, [r EXCEPT !.pc = "probe", !.stage = EntryStage(r.op)])
    /\ UNCHANGED <<guard, parse>>

\* let manager = self.<backend>.lock().await; then the backend function starts
Acquire(r) ==
    /\ r.pc = "lock"
    /\ GuardFree(Route(r.source))
    /\ guard' = [guard EXCEPT ![Route(r.source)] = TRUE]
    /\ Step(r, [r EXCEPT !.pc = "probe", !.stage = EntryStage(r.op)])
    /\ UNCHANGED parse

\* AfterProbe without the gate: the call goes on whatever the probe answered
AfterProbeNoGate(r, installed) ==
    IF r.stage = "outer"
    THEN [r EXCEPT !.child = None, !.stage = "list", !.pc = "probe"]
    ELSE [r EXCEPT !.child = None, !.pc = "spawn"]

\* AfterProbe whose upgrade goes back to the coordinator for its listing and
\* waits for the guard again
AfterProbeReacquire(r, installed) ==
    IF ~installed
    THEN [r EXCEPT !.child = None, !.bres = Some(NotFound(Route(r.source))),
                   !.pc = "ret"]
    ELSE IF r.stage = "outer"
    THEN [r EXCEPT !.child = None, !.stage = "list", !.pc = "lock"]
    ELSE [r EXCEPT !.child = None, !.pc = "spawn"]

\* if !self.is_installed() { return Err(NotFound) }: where the call goes once
\* the probe has answered; upgrade's gate is followed by list_installed's own
AfterProbe(r, installed) ==
    IF ~installed
    THEN [r EXCEPT !.child = None, !.bres = Some(NotFound(Route(r.source))),
                   !.pc = "ret"]
    ELSE IF r.stage = "outer"
    THEN [r EXCEPT !.child = None, !.stage = "list", !.pc = "probe"]
    ELSE [r EXCEPT !.child = None, !.pc = "spawn"]

\* the Result of Command::output(): Ok(Output) with an exit code, or Err
OutputOk(code) == [ok |-> TRUE, code |-> code]
OutputErr == [ok |-> FALSE, code |-> -1]

\* IsInstalled that also asks for a zero exit status
IsInstalledExitZero(out) == out.ok /\ out.code = 0

\* is_installed(): .output().is_ok()
IsInstalled(out) == out.ok

\* is_installed(): Command::new(exe).arg("--version").output() fails to spawn
ProbeSpawnFail(r) ==
    /\ r.pc = "probe"
    /\ Step(r, AfterProbe(
                 [r EXCEPT !.spawns = Append(@,
                     Attempt(Command(Route(r.source), "probe", NoId), FALSE))],
                 IsInstalled(OutputErr)))
    /\ UNCHANGED <<guard, parse>>

\* is_installed(): the probe process is spawned and output() waits for it
ProbeSpawnOk(r) ==
    /\ r.pc = "probe"
    /\ Step(r, [r EXCEPT
                  !.spawns = Append(@,
                     Attempt(Command(Route(r.source), "probe", NoId), TRUE)),
                  !.child = Some(Command(Route(r.source), "probe", NoId)),
                  !.pc = "probing"])
    /\ UNCHANGED <<guard, parse>>

\* is_installed(): output() is Ok, whatever the exit status: is_ok() is true
ProbeExit(r, code) ==
    /\ r.pc = "probing"
    /\ Step(r, AfterProbe(r, IsInstalled(OutputOk(code))))
    /\ UNCHANGED <<guard, parse>>

\* is_installed(): output() is Err after the spawn (the wait or a read failed)
ProbeWaitFail(r) ==
    /\ r.pc = "probing"
    /\ Step(r, AfterProbe(r, IsInstalled(OutputErr)))
    /\ UNCHANGED <<guard, parse>>

\* OnOutputErr that tries the subcommand again instead of returning
OnOutputErrRetry(r, e) == [r EXCEPT !.child = None, !.pc = "spawn"]

\* OnOutputErr that reports the tool as not installed
OnOutputErrNotFound(r, e) ==
    [r EXCEPT !.child = None, !.bres = Some(NotFound(Route(r.source))),
              !.pc = "ret"]

\* .output().await.map_err(|e| CommandFailed(e.to_string()))? on an Err: the
\* backend function returns the error at once
OnOutputErr(r, e) ==
    [r EXCEPT !.child = None, !.bres = Some(CommandFailed(e)), !.pc = "ret"]

\* TokioCommand::new(exe).args(..).output().await fails to spawn: map_err, ?
SpawnFail(r, e) ==
    /\ r.pc = "spawn"
    /\ Step(r, OnOutputErr(
                 [r EXCEPT !.spawns = Append(@, Attempt(Command(Route(r.source),
                                         Sub(r), r.package_id), FALSE))],
                 e))
    /\ UNCHANGED <<guard, parse>>

\* the real subcommand is spawned; the call awaits its output
SpawnOk(r) ==
    /\ r.pc = "spawn"
    /\ Step(r, [r EXCEPT
                  !.spawns = Append(@, Attempt(Command(Route(r.source),
                                         Sub(r), r.package_id), TRUE)),
                  !.child = Some(Command(Route(r.source), Sub(r),
                                         r.package_id)),
                  !.pc = "running"])
    /\ UNCHANGED <<guard, parse>>

\* output().await is Err after the spawn: map_err, ?
WaitFail(r, e) ==
    /\ r.pc = "running"
    /\ Step(r, OnOutputErr(r, e))
    /\ UNCHANGED <<guard, parse>>

\* ListExit whose upgrade goes on without a list when the listing failed
ListExitIgnoreErr(r, code, out, errb) ==
    /\ r.pc = "running"
    /\ r.stage = "list"
    /\ LET v == ListResult(Route(r.source), code, out, errb)
           q == [r EXCEPT !.child = None,
                          !.spawns = Completed(@, code, errb)]
       IN  Step(r, IF r.op = "upgrade"
                   THEN [q EXCEPT
                            !.installed = Some(<<>>),
                            !.stage = "main",
                            !.pc = "spawn"]
                   ELSE [q EXCEPT !.bres = Some(v), !.pc = "ret"])
    /\ UNCHANGED <<guard, parse>>

\* the listing subcommand completes: list_installed from the status check on,
\* and, in upgrade, the ? on its value and the lookup of old_version
ListExit(r, code, out, errb) ==
    /\ r.pc = "running"
    /\ r.stage = "list"
    /\ LET v == ListResult(Route(r.source), code, out, errb)
           q == [r EXCEPT !.child = None,
                          !.spawns = Completed(@, code, errb)]
       IN  Step(r, IF r.op = "upgrade" /\ v.type # "Err"
                   THEN [q EXCEPT
                            !.installed = Some(v.packages),
                            !.old_version = FindVersion(v.packages, r.package_id),
                            !.stage = "main",
                            !.pc = "spawn"]
                   ELSE [q EXCEPT !.bres = Some(v), !.pc = "ret"])
    /\ UNCHANGED <<guard, parse>>

\* the install, uninstall or upgrade subcommand completes: build the record
OpExit(r, code, out, errb) ==
    /\ r.pc = "running"
    /\ r.stage = "main"
    /\ Step(r, [r EXCEPT !.child = None,
                  !.spawns = Completed(@, code, errb),
                  !.bres = Some(MakeResult(Route(r.source), r.op, r.package_id,
                                           r.old_version, code, out, errb)),
                  !.pc = "ret"])
    /\ UNCHANGED <<guard, parse>>

\* Return that also gives up on a child that is still running
ReturnOnTimeout(r) ==
    /\ r.pc \in {"ret", "running"}
    /\ guard' = [guard EXCEPT ![Route(r.source)] = FALSE]
    /\ Step(r, [r EXCEPT !.child = None,
                         !.ret = IF r.pc = "ret" THEN r.bres
                                 ELSE Some(Err("Unknown", "timeout")),
                         !.pc = "done"])
    /\ UNCHANGED parse

\* the match arm ends: the guard is dropped and the backend's value returned
Return(r) ==
    /\ r.pc = "ret"
    /\ guard' = DropGuard(Route(r.source), r.bres[1])
    /\ Step(r, [r EXCEPT !.ret = Some(Forward(r.bres[1])), !.pc = "done"])
    /\ UNCHANGED parse

\* the tauri command hands the value to the presentation layer and ends
Respond(r) ==
    /\ r.pc = "done"
    /\ calls' = calls (-) SetToBag({r})
    /\ UNCHANGED <<guard, parse>>

Next ==
    \/ \E o \in Ops \ {"list_installed"}, tag \in Sources, id \in PackageIds :
          Invoke(o, tag, id)
    \/ \E tag \in Sources : Invoke("list_installed", tag, NoId)
    \/ \E r \in InProgress : Acquire(r)
    \/ \E r \in InProgress : ProbeSpawnFail(r)
    \/ \E r \in InProgress : ProbeSpawnOk(r)
    \/ \E r \in InProgress, code \in ExitCodes : ProbeExit(r, code)
    \/ \E r \in InProgress : ProbeWaitFail(r)
    \/ \E r \in InProgress, e \in IoErrors : SpawnFail(r, e)
    \/ \E r \in InProgress : SpawnOk(r)
    \/ \E r \in InProgress, e \in IoErrors : WaitFail(r, e)
    \/ \E r \in InProgress, code \in ExitCodes, errb \in Stderrs :
          \E out \in ListStdouts(Route(r.source)) : ListExit(r, code, out, errb)
    \/ \E r \in InProgress, code \in ExitCodes, errb \in Stderrs :
          \E out \in OpStdouts(Route(r.source)) : OpExit(r, code, out, errb)
    \/ \E r \in InProgress : Return(r)
    \/ \E r \in InProgress : Respond(r)

Spec == Init /\ [][Next]_vars

\* ------------------------------------------------------------------------
\* The calls under fair scheduling, one of them followed from its invocation
\* ------------------------------------------------------------------------
\* a tauri command calls the coordinator; the call that is followed is marked,
\* and there is one such call at a time
InvokeLive(o, tag, id, m) ==
    /\ BagCardinality(calls) < NumCalls
    /\ m => \A r \in InProgress : ~r.mark
    /\ calls' = calls (+) SetToBag({[op |-> o, source |-> tag,
                   package_id |-> id, pc |-> "lock", stage |-> "none",
                   installed |-> None, old_version |-> None,
                   child |-> None, spawns |-> <<>>,
                   bres |-> None, ret |-> None, mark |-> m]})
    /\ UNCHANGED <<guard, parse>>

NextLive ==
    \/ \E o \in Ops \ {"list_installed"}, tag \in Sources, id \in PackageIds :
          \E m \in BOOLEAN : InvokeLive(o, tag, id, m)
    \/ \E tag \in Sources, m \in BOOLEAN : InvokeLive("list_installed", tag, NoId, m)
    \/ \E r \in InProgress : Acquire(r)
    \/ \E r \in InProgress : ProbeSpawnFail(r)
    \/ \E r \in InProgress : ProbeSpawnOk(r)
    \/ \E r \in InProgress, code \in ExitCodes : ProbeExit(r, code)
    \/ \E r \in InProgress : ProbeWaitFail(r)
    \/ \E r \in InProgress, e \in IoErrors : SpawnFail(r, e)
    \/ \E r \in InProgress : SpawnOk(r)
    \/ \E r \in InProgress, e \in IoErrors : WaitFail(r, e)
    \/ \E r \in InProgress, code \in ExitCodes, errb \in Stderrs :
          \E out \in ListStdouts(Route(r.source)) : ListExit(r, code, out, errb)
    \/ \E r \in InProgress, code \in ExitCodes, errb \in Stderrs :
          \E out \in OpStdouts(Route(r.source)) : OpExit(r, code, out, errb)
    \/ \E r \in InProgress : Return(r)
    \/ \E r \in InProgress : Respond(r)

\* the next step of the call that has the guard of this backend: a process
\* fails to spawn or is spawned, the output() of one that runs completes, or
\* the backend function returns
HolderStep(b) ==
    \E r \in InProgress :
        /\ Route(r.source) = b
        /\ r.pc \in {"probe", "probing", "spawn", "running", "ret"}
        /\ \/ ProbeSpawnFail(r)
           \/ ProbeSpawnOk(r)
           \/ \E code \in ExitCodes : ProbeExit(r, code)
           \/ ProbeWaitFail(r)
           \/ \E e \in IoErrors : SpawnFail(r, e)
           \/ SpawnOk(r)
           \/ \E e \in IoErrors : WaitFail(r, e)
           \/ \E code \in ExitCodes, errb \in Stderrs :
                 \E out \in ListStdouts(b) : ListExit(r, code, out, errb)
           \/ \E code \in ExitCodes, errb \in Stderrs :
                 \E out \in OpStdouts(b) : OpExit(r, code, out, errb)
           \/ Return(r)

\* lock().await of the followed call is granted
MarkedAcquire == \E r \in InProgress : r.mark /\ Acquire(r)

\* every child process terminates or fails to spawn and the runtime goes on
\* with the call when it does; tokio's Mutex is fair: a call that waits is
\* not passed over for ever
Fairness ==
    /\ \A b \in Backends : WF_vars(HolderStep(b))
    /\ SF_vars(MarkedAcquire)

SpecLive == Init /\ [][NextLive]_vars /\ Fairness

\* ------------------------------------------------------------------------
\* The parsing functions on their own
\* ------------------------------------------------------------------------
\* the fields of the lines of a Chocolatey listing: ids, versions, the rest
IdFields == {"7zip", " a.b "}
VersionFields == {"19.0", " "}
RestFields == {"", "x"}

\* the lines of n fields
ChocoLinesOf(n) ==
    {l \in [1..n -> IdFields \cup VersionFields \cup RestFields] :
        /\ l[1] \in IdFields
        /\ n >= 2 => l[2] \in VersionFields
        /\ \A i \in 3..n : l[i] \in RestFields}

ChocoLines == UNION {ChocoLinesOf(n) : n \in 1..MaxFields}

\* the listings: up to MaxLines lines
ChocoListInputs == UNION {[1..k -> ChocoLines] : k \in 0..MaxLines}

\* the bytes of a text whose lines are made of the given pieces, put together
\* with sep, each line ended by "\n"
RECURSIVE TextOf(_, _)
TextOf(ls, sep) ==
    IF ls = <<>> THEN <<>>
    ELSE Join([i \in 1..Len(ls[1]) |-> Chars(ls[1][i])], sep)
             \o <<"\n">> \o TextOf(Tail(ls), sep)

\* the lines of up to MaxWords of the given words
WordLines(W) == UNION {[1..n -> W] : n \in 0..MaxWords}

\* the words of the lines of a winget listing
WingetWords == {"Foo", "a.b", "2", "-a.b"}

HeaderLine == <<"Name", "Id", "Version">>

\* the listings: one line after up to MaxLines header lines
WingetListInputs ==
    {[i \in 1..k |-> HeaderLine] \o <<l>> :
        k \in 0..MaxLines, l \in WordLines(WingetWords)}

\* whole lines of a winget listing: blank, a separator, rows, a short row
RowLines ==
    {<<>>, <<"-a.b", "Foo", "2">>, <<"Foo", "a.b", "2">>,
     <<"Bar", "c.d", "3">>, <<"Foo", "a.b">>}

\* the listings made of up to MaxLines such lines after the first two
WingetRowInputs == UNION {[1..k -> RowLines] : k \in 0..(MaxLines + 2)}

\* the words of a line of the output of install or upgrade
VersionWords ==
    {"successfully installed", "Successfully installed", "upgraded",
     "1.2", "v1.2", "version"}

\* the outputs: one line
VersionInputs == {<<l>> : l \in WordLines(VersionWords)}

\* what a parsing function is given when it is looked at on its own
ParseInputs ==
    [fn : {"choco_list"}, input : ChocoListInputs, result : {None}]
        \cup [fn : {"winget_list"}, input : WingetListInputs, result : {None}]
        \cup [fn : {"winget_rows"}, input : WingetRowInputs, result : {None}]
        \cup [fn : {"choco_version", "winget_version"},
              input : VersionInputs, result : {None}]

InitParse ==
    /\ guard = [b \in Backends |-> FALSE]
    /\ calls = EmptyBag
    /\ parse \in ParseInputs

\* the parsing part of ChocolateyManager::list_installed
ApplyChocoList ==
    /\ parse.fn = "choco_list"
    /\ parse.result = None
    /\ parse' = [parse EXCEPT !.result =
                    Some(ChocoParseList(FromUtf8Lossy(TextOf(parse.input, <<"|">>))))]
    /\ UNCHANGED <<guard, calls>>

\* the parsing part of WingetManager::list_installed
ApplyWingetList ==
    /\ parse.fn \in {"winget_list", "winget_rows"}
    /\ parse.result = None
    /\ parse' = [parse EXCEPT !.result =
                    Some(WingetParseList(
                            FromUtf8Lossy(TextOf(parse.input, <<" ", " ">>))))]
    /\ UNCHANGED <<guard, calls>>

\* ChocolateyManager::parse_version_from_output
ApplyChocoVersion ==
    /\ parse.fn = "choco_version"
    /\ parse.result = None
    /\ parse' = [parse EXCEPT !.result =
                    Some(ChocoParseVersion(TextOf(parse.input, <<" ">>)))]
    /\ UNCHANGED <<guard, calls>>

\* WingetManager::parse_version_from_output
ApplyWingetVersion ==
    /\ parse.fn = "winget_version"
    /\ parse.result = None
    /\ parse' = [parse EXCEPT !.result =
                    Some(WingetParseVersion(TextOf(parse.input, <<" ">>)))]
    /\ UNCHANGED <<guard, calls>>

NextParse ==
    \/ ApplyChocoList
    \/ ApplyWingetList
    \/ ApplyChocoVersion
    \/ ApplyWingetVersion

SpecParse == InitParse /\ [][NextParse]_vars

\* ------------------------------------------------------------------------
\* Vocabulary of the properties
\* ------------------------------------------------------------------------
\* a call is between the acquisition of its guard and its return
Held(r) == r.pc \in {"probe", "probing", "spawn", "running", "ret"}

\* the executable and the coordinator field that belong to a source tag
TagExe(tag) == IF tag = "Chocolatey" THEN "choco" ELSE "winget"
TagField(tag) == IF tag = "Chocolatey" THEN "chocolatey" ELSE "winget"
OtherTag(tag) == IF tag = "Chocolatey" THEN "Winget" ELSE "Chocolatey"

ResultTypes == {"InstallResult", "UninstallResult", "UpgradeResult"}

\* the calls that hold the guard of tag's backend, and those with a child
\* process of tag's executable in flight
Holders(tag) == {r \in InProgress : r.source = tag /\ Held(r)}
InFlight(tag) ==
    {r \in InProgress : r.child # None /\ r.child[1].exe = TagExe(tag)}

\* the last .output() call of a call
LastSpawn(r) == r.spawns[Len(r.spawns)]

\* C1: calls against the same backend never overlap: in every reachable state
\* at most one call holds a backend's guard and at most one child process of
\* that backend is in flight.
C1_MutualExclusion ==
    \A tag \in Sources :
        /\ \A r \in Holders(tag) \cup InFlight(tag) : CopiesIn(r, calls) = 1
        /\ Cardinality(Holders(tag)) <= 1
        /\ Cardinality(InFlight(tag)) <= 1

\* a call runs its real subcommand while another call for the same backend
\* waits for the guard
C1_Witness ==
    \E r1, r2 \in InProgress :
        /\ r1.source = r2.source
        /\ r1.pc = "running"
        /\ r2.pc = "lock"

\* C2: a call never waits on the other backend's guard: a call that awaits
\* the lock of its backend can take it whenever no call of its own backend
\* holds it, whatever the other backend's guard is doing.
C2_NoCrossBlocking ==
    \A r \in InProgress :
        (r.pc = "lock" /\ Holders(r.source) = {}) => ENABLED Acquire(r)

\* calls of the two backends have their real subcommands in flight at once
C2_Witness ==
    \E r1, r2 \in InProgress :
        /\ r1.source = "Chocolatey" /\ r1.pc = "running"
        /\ r2.source = "Winget" /\ r2.pc = "running"

\* C3: when a presence probe fails to spawn, the call returns NotFound and no
\* real subcommand (upgrade's pre-query list included) is ever launched by it.
C3_ProbeFailureIsNotFound ==
    \A r \in InProgress :
        \A i \in 1..Len(r.spawns) :
            (r.spawns[i].sub = "probe" /\ ~r.spawns[i].spawned) =>
                /\ i = Len(r.spawns)
                /\ \A j \in 1..Len(r.spawns) : r.spawns[j].sub = "probe"
                /\ r.pc \in {"ret", "done"}
                /\ r.bres = Some(Err("NotFound", NotInstalledMsg(TagField(r.source))))
                /\ r.pc = "done" => r.ret = r.bres

\* an upgrade whose second probe (the one of the pre-query) failed to spawn
\* has returned
C3_Witness ==
    \E r \in InProgress :
        /\ r.op = "upgrade"
        /\ r.pc = "done"
        /\ Len(r.spawns) = 2
        /\ ~r.spawns[2].spawned

\* C4: in every result record a backend returns, success is true exactly when
\* error is unset.
C4_SuccessIffNoError ==
    \A r \in InProgress :
        \A v \in {r.bres, r.ret} :
            (v # None /\ v[1].type \in ResultTypes) =>
                (v[1].success <=> v[1].error = None)

\* a result record with success false has been returned
C4_Witness ==
    \E r \in InProgress :
        /\ r.ret # None
        /\ r.ret[1].type \in ResultTypes
        /\ ~r.ret[1].success
        /\ r.ret[1].error # None

\* C5: when the install, uninstall or upgrade subcommand ran to completion the
\* call returns a result record whose success flag says whether the exit
\* status was zero; after a non-zero exit, error is the captured stderr.
C5_CompletedRunGivesRecord ==
    \A r \in InProgress :
        (/\ Len(r.spawns) > 0
         /\ LastSpawn(r).sub \in {"install", "uninstall", "upgrade"}
         /\ LastSpawn(r).exit # None) =>
            /\ r.bres # None
            /\ r.bres[1].type \in ResultTypes
            /\ r.bres[1].success = (LastSpawn(r).exit[1] = 0)
            /\ LastSpawn(r).exit[1] # 0 =>
                  r.bres[1].error =
                      Some(Str(FromUtf8Lossy(LastSpawn(r).stderr[1])))
            /\ r.pc = "done" => r.ret = r.bres

\* an uninstall whose process exited with a non-zero status has returned
C5_Witness ==
    \E r \in InProgress :
        /\ r.op = "uninstall"
        /\ r.pc = "done"
        /\ LastSpawn(r).exit = Some(1)

\* C6: list_installed returns CommandFailed carrying the captured stderr, and
\* no package records, whenever the listing subcommand exits non-zero.
C6_ListFailureIsCommandFailed ==
    \A r \in InProgress :
        (/\ r.op = "list_installed"
         /\ Len(r.spawns) > 0
         /\ LastSpawn(r).sub = "list"
         /\ LastSpawn(r).exit # None
         /\ LastSpawn(r).exit[1] # 0) =>
            /\ r.bres = Some(Err("CommandFailed",
                                 Str(FromUtf8Lossy(LastSpawn(r).stderr[1]))))
            /\ r.pc = "done" => r.ret = r.bres

\* a list_installed call of each backend returned after a failed listing
C6_Witness ==
    \A tag \in Sources :
        \E r \in InProgress :
            /\ r.op = "list_installed"
            /\ r.source = tag
            /\ r.pc = "done"
            /\ LastSpawn(r).sub = "list"
            /\ LastSpawn(r).exit = Some(1)

\* the identifier of the call is not the id of any record of its pre-query
AbsentFromList(r) ==
    /\ r.op = "upgrade"
    /\ r.installed # None
    /\ \A i \in 1..Len(r.installed[1]) : r.installed[1][i].id # r.package_id

\* C7: an upgrade of an identifier absent from the successful pre-query list
\* still launches the upgrade subcommand, and its UpgradeResult has
\* old_version unset.
C7_AbsentStillUpgrades ==
    \A r \in InProgress :
        AbsentFromList(r) =>
            /\ r.pc \in {"spawn", "running", "ret", "done"}
            /\ r.pc # "spawn" => LastSpawn(r).sub = "upgrade"
            /\ (r.bres # None /\ r.bres[1].type = "UpgradeResult") =>
                   r.bres[1].old_version = None
            /\ (r.ret # None /\ r.ret[1].type = "UpgradeResult") =>
                   r.ret[1].old_version = None

\* such an upgrade returned an UpgradeResult, the pre-query list not empty
C7_Witness ==
    \E r \in InProgress :
        /\ AbsentFromList(r)
        /\ Len(r.installed[1]) > 0
        /\ r.ret # None
        /\ r.ret[1].type = "UpgradeResult"

\* C8: a call holds its backend's guard from the acquisition to its return and
\* releases it on every outcome: a guard is taken exactly while some call of
\* its backend is between the two, so both are free when no call is.
C8_GuardHeldExactlyDuringCall ==
    \A tag \in Sources : guard[TagField(tag)] <=> Holders(tag) # {}

\* calls have returned an error and a result record, and both guards are free
C8_Witness ==
    /\ \E r \in InProgress : r.pc = "done" /\ r.ret[1].type = "Err"
    /\ \E r \in InProgress : r.pc = "done" /\ r.ret[1].type \in ResultTypes
    /\ \A b \in Backends : ~guard[b]

\* C9: the coordinator routes by the source tag alone: a call takes only the
\* guard of its tag's backend, launches only that backend's executable, and
\* returns the value of the backend operation unchanged.
C9_RoutesBySourceTag ==
    \A r \in InProgress :
        /\ \A i \in 1..Len(r.spawns) : r.spawns[i].exe = TagExe(r.source)
        /\ Held(r) => guard[TagField(r.source)]
        /\ (Held(r) /\ guard[TagField(OtherTag(r.source))]) =>
               Holders(OtherTag(r.source)) # {}
        /\ r.ret # None => r.ret = r.bres

\* a Winget call returned a result record while no Chocolatey call held a guard
C9_Witness ==
    \E r \in InProgress :
        /\ r.source = "Winget"
        /\ r.pc = "done"
        /\ r.ret[1].type \in ResultTypes
        /\ Len(r.spawns) >= 2
        /\ Holders("Chocolatey") = {}

\* C10: the only error kinds an operation returns are NotFound and
\* CommandFailed.
C10_OnlyTwoErrorKinds ==
    \A r \in InProgress :
        \A v \in {r.bres, r.ret} :
            (v # None /\ v[1].type = "Err") =>
                v[1].kind \in {"NotFound", "CommandFailed"}

\* both kinds have been returned, CommandFailed from a failed spawn
C10_Witness ==
    /\ \E r \in InProgress : r.ret # None /\ r.ret[1].type = "Err"
                                /\ r.ret[1].kind = "NotFound"
    /\ \E r \in InProgress : r.ret # None /\ r.ret[1].type = "Err"
                                /\ r.ret[1].kind = "CommandFailed"
                                /\ ~LastSpawn(r).spawned

\* the subcommands that do the work of an operation (not the probe)
RealSubs == {"install", "uninstall", "upgrade", "list"}

\* attempt i of call r is over and did not give an interpretable result: it
\* was not spawned, its wait failed, or it was a listing that exited non-zero
FailedAttempt(r, i) ==
    LET a == r.spawns[i]
        over == i < Len(r.spawns) \/ r.child = None
    IN  \/ ~a.spawned
        \/ a.sub \in RealSubs /\ over /\ a.exit = None
        \/ a.sub = "list" /\ a.exit # None /\ a.exit[1] # 0
        \/ a.sub = "probe" /\ over /\ i = Len(r.spawns) /\ r.bres # None

\* C11: nothing is retried: within one call each real subcommand is launched
\* at most once, and a failed step is the last step of the call, which then
\* ends with that failure as its value.
C11_NoRetry ==
    \A r \in InProgress :
        /\ \A sub \in RealSubs :
              Cardinality({i \in 1..Len(r.spawns) : r.spawns[i].sub = sub}) <= 1
        /\ \A i \in 1..Len(r.spawns) :
              FailedAttempt(r, i) =>
                  /\ i = Len(r.spawns)
                  /\ r.pc \in {"ret", "done"}
                  /\ r.bres # None
                  /\ r.bres[1].type = "Err"
                  /\ r.pc = "done" => r.ret = r.bres

\* an upgrade returned after its upgrade subcommand could not be spawned
C11_Witness ==
    \E r \in InProgress :
        /\ r.op = "upgrade"
        /\ r.pc = "done"
        /\ LastSpawn(r).sub = "upgrade"
        /\ ~LastSpawn(r).spawned
        /\ r.ret[1].type = "Err"

\* in this step call r leaves its probe with the gate open: it goes on to the
\* next probe or to its subcommand and has no value yet
GateOpens(r) ==
    \E q \in BagToSet(calls') :
        /\ calls' = (calls (-) SetToBag({r})) (+) SetToBag({q})
        /\ q.pc \in {"probe", "spawn"}
        /\ q.bres = None

\* in this step call r leaves its probe with the gate shut: NotFound
GateShuts(r) ==
    \E q \in BagToSet(calls') :
        /\ calls' = (calls (-) SetToBag({r})) (+) SetToBag({q})
        /\ q.pc = "ret"
        /\ q.bres = Some(Err("NotFound", NotInstalledMsg(TagField(r.source))))

\* C12 as stated: the presence check is true exactly when the probe process
\* could be spawned: a probe that was spawned and is over left the gate open.
C12_TrueIffSpawned ==
    \A r \in InProgress :
        (/\ Len(r.spawns) > 0
         /\ LastSpawn(r).sub = "probe"
         /\ r.child = None) =>
            (LastSpawn(r).spawned <=> r.bres = None)

\* C12, amended: the presence check is true exactly when output() of the
\* probe is Ok, that is when the probe was spawned and waited for, whatever
\* its exit status: every exit of a probe opens the gate, and a probe that
\* could not be spawned or not be waited for shuts it.
C12_TrueIffOutputOk ==
    [][\A r \in InProgress :
          /\ \A code \in ExitCodes : ProbeExit(r, code) => GateOpens(r)
          /\ (ProbeSpawnFail(r) \/ ProbeWaitFail(r)) => GateShuts(r)]_vars

\* a call is about to spawn its subcommand, its spawned probe being over
C12_Witness ==
    \E r \in InProgress :
        /\ r.pc = "spawn"
        /\ LastSpawn(r).sub = "probe"
        /\ LastSpawn(r).spawned
        /\ r.child = None

\* the fields of the model with their white space trimmed
Trimmed(f) ==
    CASE f = " a.b " -> "a.b"
      [] f = " "     -> ""
      [] OTHER       -> f

\* the record a Chocolatey line of at least two fields stands for
ChocoRecordOf(l) ==
    [id |-> Trimmed(l[1]), version |-> Trimmed(l[2]), source |-> "Chocolatey",
     name |-> Some(Trimmed(l[1]))]

\* C13: Chocolatey list parsing emits, for every line of at least two fields,
\* exactly one record with id the first and version the second field, both
\* trimmed, and name the id, whatever fields follow; a line of fewer than two
\* fields emits nothing and does not fail the call.
C13_ChocoListParsing ==
    (parse.fn = "choco_list" /\ parse.result # None) =>
        parse.result[1] =
            Flatten([k \in 1..Len(parse.input) |->
                        IF Len(parse.input[k]) >= 2
                        THEN <<ChocoRecordOf(parse.input[k])>> ELSE <<>>])

\* "7zip|19.0|" after a line of one field was parsed to the one record
C13_Witness ==
    /\ parse.fn = "choco_list"
    /\ parse.input = <<<<" a.b ">>, <<"7zip", "19.0", "">>>>
    /\ parse.result = Some(<<[id |-> "7zip", version |-> "19.0",
                              source |-> "Chocolatey", name |-> Some("7zip")]>>)

\* the words of the model with an embedded period
HasPeriod(w) == w \in {"a.b", "-a.b", "1.2", "v1.2"}

\* the words put together with one space between them
RECURSIVE Spaced(_)
Spaced(ws) ==
    IF ws = <<>> THEN ""
    ELSE IF Len(ws) = 1 THEN ws[1]
    ELSE ws[1] \o " " \o Spaced(Tail(ws))

\* the line of a winget listing that was parsed, and the places of its
\* words with a period
ListLine == parse.input[Len(parse.input)]
IdPlaces == {i \in 1..Len(ListLine) : HasPeriod(ListLine[i])}
IdPlace == CHOOSE i \in IdPlaces : TRUE

\* the parsing of a winget listing has been applied to a line after the two
\* header lines
WingetLineParsed ==
    parse.fn = "winget_list" /\ parse.result # None /\ Len(parse.input) >= 3

\* C14 as stated: a list line with exactly one word with a period gives a
\* record with that word as id, the next word as version and the words before
\* it joined by a space as name; a line with no such word gives no record.
C14_OneDottedWordIsRecord ==
    WingetLineParsed =>
        /\ Cardinality(IdPlaces) = 1 =>
              /\ Len(parse.result[1]) = 1
              /\ parse.result[1][1].id = ListLine[IdPlace]
              /\ IdPlace < Len(ListLine) =>
                    parse.result[1][1].version = ListLine[IdPlace + 1]
              /\ parse.result[1][1].name =
                    Some(Spaced(SubSeq(ListLine, 1, IdPlace - 1)))
        /\ IdPlaces = {} => parse.result[1] = <<>>

\* C14: a line after the first two that does not start with "-" and has at
\* least three words of which exactly one has a period gives one record: id
\* that word, version the next word or "unknown" when there is none, name the
\* words before it joined by a space or the id when there are none; a line
\* among the first two, starting with "-", of fewer than three words or with
\* no word with a period gives no record.
C14_WingetListParsing ==
    (parse.fn = "winget_list" /\ parse.result # None
        /\ Cardinality(IdPlaces) <= 1) =>
        IF /\ Len(parse.input) >= 3
           /\ Len(ListLine) >= 3
           /\ ListLine[1] # "-a.b"
           /\ IdPlaces # {}
        THEN parse.result[1] =
                <<[id |-> ListLine[IdPlace],
                   version |-> IF IdPlace < Len(ListLine)
                               THEN ListLine[IdPlace + 1] ELSE "unknown",
                   source |-> "Winget",
                   name |-> Some(IF IdPlace = 1 THEN ListLine[IdPlace]
                                 ELSE Spaced(SubSeq(ListLine, 1, IdPlace - 1)))]>>
        ELSE parse.result[1] = <<>>

\* a row of two name words, the id and the version was parsed
C14_Witness ==
    /\ WingetLineParsed
    /\ ListLine = <<"Foo", "Foo", "a.b", "2">>
    /\ parse.result = Some(<<[id |-> "a.b", version |-> "2",
                              source |-> "Winget", name |-> Some("Foo Foo")]>>)

\* the words of the model that are a keyword, look like a version, and such a
\* word without its leading "v"
IsKeyword(w) == w \in {"successfully installed", "upgraded"}
LooksLikeVersion(w) == w \in {"1.2", "v1.2"}
Stripped(w) == IF w = "v1.2" THEN "1.2" ELSE w

OutputLine == parse.input[1]
VersionPlaces == {i \in 1..Len(OutputLine) : LooksLikeVersion(OutputLine[i])}

\* C15 as stated: for both backends the version is the first word, of a line
\* with one of the keywords "successfully installed" and "upgraded", that has
\* a digit and a leading "v" or a period, without its leading "v"; there is
\* no version when there is no such line or word.
C15_VersionExtraction ==
    (parse.fn \in {"choco_version", "winget_version"} /\ parse.result # None) =>
        parse.result[1] =
            IF (\E i \in 1..Len(OutputLine) : IsKeyword(OutputLine[i]))
                    /\ VersionPlaces # {}
            THEN Some(Stripped(OutputLine[Min(VersionPlaces)]))
            ELSE None

\* the argument vectors of the interface, written out
Template(tag, sub, id) ==
    CASE sub = "probe" -> <<"--version">>
      [] tag = "Chocolatey" /\ sub = "install" ->
            <<"install", id, "-y", "--no-progress">>
      [] tag = "Chocolatey" /\ sub = "uninstall" -> <<"uninstall", id, "-y">>
      [] tag = "Chocolatey" /\ sub = "upgrade" ->
            <<"upgrade", id, "-y", "--no-progress">>
      [] tag = "Chocolatey" /\ sub = "list" ->
            <<"list", "--local-only", "--limit-output">>
      [] tag = "Winget" /\ sub = "install" ->
            <<"install", "--id", id, "--silent", "--accept-package-agreements",
              "--accept-source-agreements">>
      [] tag = "Winget" /\ sub = "uninstall" ->
            <<"uninstall", "--id", id, "--silent">>
      [] tag = "Winget" /\ sub = "upgrade" ->
            <<"upgrade", "--id", id, "--silent", "--accept-package-agreements">>
      [] tag = "Winget" /\ sub = "list" -> <<"list">>

\* the processes an operation may launch
SubsOf(o) ==
    CASE o = "install"        -> {"probe", "install"}
      [] o = "uninstall"      -> {"probe", "uninstall"}
      [] o = "list_installed" -> {"probe", "list"}
      [] o = "upgrade"        -> {"probe", "list", "upgrade"}

\* C16: every child process an operation launches runs the executable of its
\* backend with exactly the fixed argument template of the backend and the
\* operation, the package identifier put in as it is; no other argument
\* vector is launched.
C16_FixedArgumentTemplates ==
    \A r \in InProgress :
        \A i \in 1..Len(r.spawns) :
            /\ r.spawns[i].sub \in SubsOf(r.op)
            /\ r.spawns[i].exe = TagExe(r.source)
            /\ r.spawns[i].args = Template(r.source, r.spawns[i].sub, r.package_id)

\* a winget upgrade launched its probes, its listing and its upgrade
C16_Witness ==
    \E r \in InProgress :
        /\ r.source = "Winget"
        /\ r.package_id = "a.b"
        /\ [i \in 1..Len(r.spawns) |-> r.spawns[i].args] =
              << <<"--version">>, <<"--version">>, <<"list">>,
                 <<"upgrade", "--id", "a.b", "--silent",
                   "--accept-package-agreements">> >>

\* C17: within a call the steps come in the order acquire the guard, presence
\* probe, real subcommand, its output and status, parse, release, return: a
\* call that waits for the guard has launched nothing, the first process of a
\* call is a probe and every real subcommand follows a probe that was spawned
\* or, for the upgrade, the listing that completed; a process runs only while
\* its call holds the guard, a result exists only once no process runs, and
\* the call has returned exactly when it has released the guard with a value.
C17_StepOrder ==
    \A r \in InProgress :
        /\ r.pc = "lock" => r.spawns = <<>> /\ r.bres = None
        /\ r.spawns # <<>> => r.spawns[1].sub = "probe"
        /\ \A i \in 1..Len(r.spawns) :
              r.spawns[i].sub \in RealSubs =>
                  /\ i > 1
                  /\ r.spawns[i - 1].spawned
                  /\ r.spawns[i - 1].sub =
                        IF r.spawns[i].sub = "upgrade" THEN "list" ELSE "probe"
        /\ r.child # None =>
              /\ Held(r)
              /\ guard[TagField(r.source)]
              /\ r.child[1].args = LastSpawn(r).args
              /\ r.bres = None
        /\ r.bres # None => r.pc \in {"ret", "done"}
        /\ r.pc = "ret" => r.bres # None /\ guard[TagField(r.source)]
        /\ r.ret # None <=> r.pc = "done"
        /\ r.pc = "done" => r.ret = r.bres

\* an install went through all the steps and its guard is free again
C17_Witness ==
    \E r \in InProgress :
        /\ r.op = "install"
        /\ r.pc = "done"
        /\ Len(r.spawns) = 2
        /\ r.spawns[2].exit = Some(0)
        /\ r.ret[1].type = "InstallResult"
        /\ ~guard[TagField(r.source)]

\* the records of the pre-query list with exactly the requested identifier
Matches(r) ==
    {k \in 1..Len(r.installed[1]) : r.installed[1][k].id = r.package_id}

\* C18: in an upgrade the listing completes before the upgrade subcommand is
\* launched, and when the pre-query list has a record with exactly the
\* requested id, old_version of the result is the version of the first such
\* record of that list.
C18_ListBeforeUpgrade ==
    \A r \in InProgress :
        /\ \A i \in 1..Len(r.spawns) :
              r.spawns[i].sub = "upgrade" =>
                  /\ i > 1
                  /\ r.spawns[i - 1].sub = "list"
                  /\ r.spawns[i - 1].exit = Some(0)
                  /\ r.installed # None
        /\ (r.ret # None /\ r.ret[1].type = "UpgradeResult"
                /\ Matches(r) # {}) =>
              r.ret[1].old_version =
                  Some(r.installed[1][Min(Matches(r))].version)

\* an upgrade returned after a pre-query list with two records of the id
C18_Witness ==
    \E r \in InProgress :
        /\ r.ret # None
        /\ r.ret[1].type = "UpgradeResult"
        /\ Cardinality(Matches(r)) = 2
        /\ r.ret[1].old_version # None

\* the real subcommand of the call was launched and output() gave an Err:
\* it was not spawned, or it was spawned and could not be waited for
SubcommandErr(r) ==
    /\ r.spawns # <<>>
    /\ LastSpawn(r).sub \in RealSubs
    /\ r.child = None
    /\ LastSpawn(r).exit = None

\* C19: when the probe succeeded but the real subcommand cannot be spawned or
\* waited for to completion, the operation returns CommandFailed, not
\* NotFound and not a result record.
C19_SubcommandErrIsCommandFailed ==
    \A r \in InProgress :
        SubcommandErr(r) =>
            /\ r.spawns[Len(r.spawns) - 1].spawned
            /\ r.bres # None
            /\ r.bres[1].type = "Err"
            /\ r.bres[1].kind = "CommandFailed"
            /\ r.bres[1].msg \in IoErrors
            /\ r.pc \in {"ret", "done"}
            /\ r.pc = "done" => r.ret = r.bres

\* an uninstall whose subcommand was spawned but not waited for returned
C19_Witness ==
    \E r \in InProgress :
        /\ r.op = "uninstall"
        /\ SubcommandErr(r)
        /\ LastSpawn(r).spawned
        /\ r.ret # None
        /\ r.ret[1].kind = "CommandFailed"

\* the number of calls in progress that are in this state
CopiesOf(bag, r) == IF r \in BagToSet(bag) THEN bag[r] ELSE 0

\* output() of the child process of the call completes in this step
ChildOutcome(r) ==
    \/ \E code \in ExitCodes : ProbeExit(r, code)
    \/ ProbeWaitFail(r)
    \/ \E e \in IoErrors : WaitFail(r, e)
    \/ \E code \in ExitCodes, errb \in Stderrs :
          \E out \in ListStdouts(TagField(r.source)) : ListExit(r, code, out, errb)
    \/ \E code \in ExitCodes, errb \in Stderrs :
          \E out \in OpStdouts(TagField(r.source)) : OpExit(r, code, out, errb)

\* the call stays where it is and keeps the guard of its backend, and the
\* calls that wait for that guard keep waiting
StaysBlocked(r) ==
    /\ CopiesOf(calls', r) >= CopiesOf(calls, r)
    /\ guard'[TagField(r.source)]
    /\ \A q \in InProgress :
          (q.source = r.source /\ q.pc = "lock") =>
              CopiesOf(calls', q) >= CopiesOf(calls, q)

\* C20: there is no timeout and no cancellation: a call whose child process
\* runs stays where it is and keeps the guard of its backend, and the calls
\* that wait for that guard keep waiting, in every step but the one in which
\* output() of that child process completes.
C20_NoTimeout ==
    [][\A r \in InProgress :
          (r.child # None /\ ~StaysBlocked(r)) => ChildOutcome(r)]_vars

\* the second probe of an upgrade runs while another call waits for the guard
C20_Witness ==
    \E r, q \in InProgress :
        /\ r.pc = "probing"
        /\ r.stage = "list"
        /\ r.op = "upgrade"
        /\ q.source = r.source
        /\ q.pc = "lock"

\* the lines of the model that have the shape of a row: name, id, version
FitsRow(l) == l \in {<<"Foo", "a.b", "2">>, <<"Bar", "c.d", "3">>}

\* the records of the lines from the k-th on that have the shape of a row
RECURSIVE RowsFrom(_, _)
RowsFrom(ls, k) ==
    IF k > Len(ls) THEN <<>>
    ELSE (IF FitsRow(ls[k])
          THEN <<[id |-> ls[k][2], version |-> ls[k][3], source |-> "Winget",
                  name |-> Some(ls[k][1])]>>
          ELSE <<>>) \o RowsFrom(ls, k + 1)

\* C21: winget list parsing skips the first two lines whatever they are and,
\* of the lines after them, the blank ones, the ones starting with "-" and
\* the ones that do not have the shape of a row, and gives the records of
\* the others, in their order, so never more records than there are lines
\* after the first two; no such line makes the parsing fail.
C21_WingetSkipsHeaderAndMisfits ==
    (parse.fn = "winget_rows" /\ parse.result # None) =>
        /\ parse.result[1] = RowsFrom(parse.input, 3)
        /\ Len(parse.result[1]) <= IF Len(parse.input) >= 2
                                   THEN Len(parse.input) - 2 ELSE 0

\* two rows as the first two lines, a line starting with "-", and a row
C21_Witness ==
    /\ parse.fn = "winget_rows"
    /\ parse.input = << <<"Foo", "a.b", "2">>, <<"Foo", "a.b", "2">>,
                        <<"-a.b", "Foo", "2">>, <<"Bar", "c.d", "3">> >>
    /\ parse.result = Some(<<[id |-> "c.d", version |-> "3",
                              source |-> "Winget", name |-> Some("Bar")]>>)

\* the listing subcommand of the call was launched and failed: it could not
\* be spawned, or it exited with a status other than zero
ListingFailed(r) ==
    \E i \in 1..Len(r.spawns) :
        /\ r.spawns[i].sub = "list"
        /\ \/ ~r.spawns[i].spawned
           \/ r.spawns[i].exit # None /\ r.spawns[i].exit[1] # 0

\* C22: when the pre-query listing of an upgrade fails, by a non-zero exit or
\* because it cannot be spawned, the call returns CommandFailed, the upgrade
\* subcommand is never launched and there is no UpgradeResult.
C22_FailedPreQueryStopsUpgrade ==
    \A r \in InProgress :
        (r.op = "upgrade" /\ ListingFailed(r)) =>
            /\ LastSpawn(r).sub = "list"
            /\ \A i \in 1..Len(r.spawns) : r.spawns[i].sub # "upgrade"
            /\ r.pc \in {"ret", "done"}
            /\ r.bres # None
            /\ r.bres[1].type = "Err"
            /\ r.bres[1].kind = "CommandFailed"
            /\ r.pc = "done" => r.ret = r.bres

\* upgrades have returned after a listing that exited with 1 and after one
\* that could not be spawned
C22_Witness ==
    /\ \E r \in InProgress :
          /\ r.op = "upgrade" /\ r.pc = "done"
          /\ LastSpawn(r).sub = "list" /\ LastSpawn(r).exit = Some(1)
    /\ \E r \in InProgress :
          /\ r.op = "upgrade" /\ r.pc = "done"
          /\ LastSpawn(r).sub = "list" /\ ~LastSpawn(r).spawned

\* C23: an upgrade takes the guard of its backend once and keeps it over the
\* pre-query listing and the upgrade subcommand: from its first process to
\* its return it is the one holder of the guard, its listing and its
\* subcommand start without waiting for the guard, and every other call of
\* the backend runs no process and is waiting for the guard or has returned.
C23_UpgradeHoldsGuardThroughout ==
    \A r \in InProgress :
        (r.op = "upgrade" /\ r.spawns # <<>> /\ r.pc # "done") =>
            /\ Held(r)
            /\ guard[TagField(r.source)]
            /\ Holders(r.source) = {r}
            /\ CopiesOf(calls, r) = 1
            /\ r.pc = "probe" => ENABLED ProbeSpawnOk(r)
            /\ r.pc = "spawn" => ENABLED SpawnOk(r)
            /\ \A q \in InProgress \ {r} :
                  q.source = r.source =>
                      q.child = None /\ q.pc \in {"lock", "done"}

\* an upgrade is between its pre-query and its subcommand while another call
\* of the backend waits for the guard
C23_Witness ==
    \E r, q \in InProgress :
        /\ r.op = "upgrade"
        /\ r.pc = "spawn"
        /\ r.stage = "main"
        /\ LastSpawn(r).sub = "list"
        /\ q.source = r.source
        /\ q.pc = "lock"

\* the followed call is in progress; it has returned a value
MarkedInProgress == \E r \in InProgress : r.mark
MarkedReturned ==
    \E r \in InProgress :
        /\ r.mark
        /\ r.pc = "done"
        /\ r.ret # None
        /\ r.ret[1].type \in ResultTypes \cup {"Packages", "Err"}

\* C24: when every child process terminates or fails to spawn and the guard
\* is granted fairly, a call, whatever its operation and source tag and
\* whatever other calls are made at the same time, returns a result record or
\* an error.
C24_EveryCallReturns == MarkedInProgress ~> MarkedReturned

\* the followed call has returned while another call of its backend, which
\* took the guard after it, runs its subcommand
C24_Witness ==
    \E r, q \in InProgress :
        /\ r.mark /\ r.pc = "done" /\ r.ret # None
        /\ ~q.mark /\ q.source = r.source /\ q.pc = "running"

=============================================================================
